---- MODULE Spec2Model ----
(***************************************************************************)
(* State-machine model of moby (src/moby.py): main, run_env, push, pull    *)
(* and run_command, stepped at the granularity of the calls they make on   *)
(* the docker client, the logger and the tar archive.                      *)
(*                                                                         *)
(* Python strings are sequences of one-character strings; a byte string    *)
(* is a sequence of bytes, an ASCII byte being written as its character    *)
(* and the two bytes of a two-byte UTF-8 character as "C3" and "A9".       *)
(* Python dicts are records whose DOMAIN is the set of keys present.       *)
(* Objects referenced from several places (the env dicts of the config)    *)
(* live in a heap and are referred to by their id.                         *)
(***************************************************************************)
EXTENDS Integers, Sequences, FiniteSets, TLC

VARIABLES
    config,     \* the parsed moby.yml: [envlist, heap]
    pc,         \* position of main
    i,          \* index into config['envlist'] of main's for loop
    stack,      \* activation records of run_env, outermost first
    xfer,       \* activation record of push / pull
    cmd,        \* activation record of run_command
    exc,        \* the exception in flight or that ended the run
    status,     \* exit status of the process, -1 while running
    calls,      \* history of the calls made on client and on tar archives
    log,        \* history of logger.info messages
    local       \* what pull has extracted into the current directory of the host

vars == <<config, pc, i, stack, xfer, cmd, exc, status, calls, log, local>>

(***************************************************************************)
(* Bounds of the model.                                                    *)
(***************************************************************************)
MaxRun == 2        \* longest run list of a generated env
MaxPaths == 2      \* longest push / pull list of a generated env
MaxEnvs == 2       \* longest envlist
MaxChunks == 2     \* most chunks streamed by the command of SpecCmd
MaxDepth == 4      \* deepest nesting of run_env calls the interpreter allows

(***************************************************************************)
(* Strings and bytes.                                                      *)
(***************************************************************************)
SEP == "/"
Whitespace == {" ", "\n"}
AsciiBytes == {"a", " ", "\n", SEP}
LeadByte == "C3"
ContByte == "A9"

\* bytes.decode(): strict UTF-8. A lead byte needs its continuation byte in
\* the same byte string; a continuation byte cannot stand alone.
RECURSIVE decode(_)
decode(b) ==
    IF b = <<>> THEN [ok |-> TRUE, text |-> <<>>]
    ELSE IF Head(b) \in AsciiBytes
         THEN LET r == decode(Tail(b))
              IN  [ok |-> r.ok, text |-> <<Head(b)>> \o r.text]
    ELSE IF Head(b) = LeadByte /\ Len(b) >= 2 /\ b[2] = ContByte
         THEN LET r == decode(Tail(Tail(b)))
              IN  [ok |-> r.ok, text |-> <<"U+E9">> \o r.text]
    ELSE [ok |-> FALSE, text |-> <<>>]

RECURSIVE lstrip(_)
lstrip(s) ==
    IF s # <<>> /\ Head(s) \in Whitespace THEN lstrip(Tail(s)) ELSE s

RECURSIVE rstrip(_)
rstrip(s) ==
    IF s # <<>> /\ s[Len(s)] \in Whitespace
    THEN rstrip(SubSeq(s, 1, Len(s) - 1))
    ELSE s

\* str.strip() with no argument: whitespace is removed at both ends.
strip_rstrip_only(s) == rstrip(s)
strip(s) == lstrip(rstrip(s))

startswith(s, c) == s # <<>> /\ Head(s) = c
endswith(s, c) == s # <<>> /\ s[Len(s)] = c

\* posixpath.join(a, p) for two arguments.
posixpath_join(a, p) ==
    IF startswith(p, SEP) THEN p
    ELSE IF a = <<>> \/ endswith(a, SEP) THEN a \o p
    ELSE a \o <<SEP>> \o p

\* the path pull hands to client.get_archive
resolve_always_join(cwd, path) == cwd \o <<SEP>> \o path
resolve(cwd, path) ==
    IF ~startswith(path, SEP) THEN posixpath_join(cwd, path) ELSE path

RECURSIVE concat(_)
concat(ss) == IF ss = <<>> THEN <<>> ELSE Head(ss) \o concat(Tail(ss))

(***************************************************************************)
(* The configurations the runs are drawn from.  An env dict is a record    *)
(* with the keys it holds; 'before' and 'after' hold the id of another     *)
(* env dict of the heap.  The top-level entry 'name' has the id <<name>>.  *)
(***************************************************************************)
EmptyDict == [k \in {} |-> <<>>]

PathAt(j) ==
    IF j % 2 = 1 THEN <<"a", ToString(j)>> ELSE <<SEP, "b", ToString(j)>>
PathList(n) == [j \in 1..n |-> PathAt(j)]
Cmd(id, j) == id \o <<"run", ToString(j)>>
PWD == <<"pwd">>

\* a shape gives the length of each list of an env dict, -1 for a key that
\* is absent
Shape(push_n, run_n, pull_n) == [push |-> push_n, run |-> run_n, pull |-> pull_n]

Dict(id, shape, hasBefore, hasAfter) ==
    LET keys == (IF hasBefore THEN {"before"} ELSE {})
                \cup (IF shape.push >= 0 THEN {"push"} ELSE {})
                \cup (IF shape.run >= 0 THEN {"run"} ELSE {})
                \cup (IF shape.pull >= 0 THEN {"pull"} ELSE {})
                \cup (IF hasAfter THEN {"after"} ELSE {})
    IN  [k \in keys |->
            CASE k = "before" -> Append(id, "before")
              [] k = "after"  -> Append(id, "after")
              [] k = "push"   -> PathList(shape.push)
              [] k = "pull"   -> PathList(shape.pull)
              [] k = "run"    -> [j \in 1..shape.run |-> Cmd(id, j)]]

\* a tree is [self, before, after]; before and after are <<>> or <<tree>>
Leaf(shape) == [self |-> shape, before |-> <<>>, after |-> <<>>]
Node(shape, b, a) == [self |-> shape, before |-> b, after |-> a]

RECURSIVE Heap(_, _)
Heap(id, t) ==
    (id :> Dict(id, t.self, t.before # <<>>, t.after # <<>>))
    @@ (IF t.before # <<>> THEN Heap(Append(id, "before"), t.before[1])
        ELSE EmptyDict)
    @@ (IF t.after # <<>> THEN Heap(Append(id, "after"), t.after[1])
        ELSE EmptyDict)

\* each list absent, empty or of the longest length
Shapes == {Shape(p, r, q) : p \in {-1, 0, MaxPaths}, r \in {-1, 0, MaxRun},
                            q \in {-1, 0, MaxPaths}}
ChildShapes == {Shape(-1, 1, -1), Shape(1, 0, -1), Shape(-1, 0, MaxPaths),
                Shape(1, MaxRun, MaxPaths)}
OptLeaf(S) == {<<>>} \cup {<<Leaf(s)>> : s \in S}

\* every combination of phases at the root, under every pair of children
RichTrees == {Node(s, b, a) : s \in Shapes, b \in OptLeaf(ChildShapes),
                              a \in OptLeaf(ChildShapes)}

Full == Shape(1, MaxRun, 1)
\* nesting of depth two on both sides
DeepTree ==
    Node(Full, <<Node(Full, <<Leaf(Shape(-1, 1, -1))>>, <<Leaf(Full)>>)>>,
               <<Node(Shape(-1, 1, -1), <<Leaf(Full)>>, <<Leaf(Shape(-1, 1, -1))>>)>>)

ListTrees == {Leaf(Shape(-1, 1, -1)),
              Node(Full, <<Leaf(Shape(-1, 1, -1))>>, <<Leaf(Shape(-1, 1, -1))>>)}
SecondTree == Leaf(Shape(1, 1, 1))

Names == {"e1", "e2", "nope"}
EnvLists == UNION {[1..n -> Names] : n \in 0..MaxEnvs}

Cfg(envlist, t) ==
    [envlist |-> envlist,
     heap |-> Heap(<<"e1">>, t) @@ Heap(<<"e2">>, SecondTree)]

Configs ==
    {Cfg(<<"e1">>, t) : t \in RichTrees \cup {DeepTree}}
    \cup {Cfg(l, t) : l \in EnvLists, t \in ListTrees}

(***************************************************************************)
(* Values.                                                                 *)
(***************************************************************************)
NoException == [type |-> "none", code |-> 0]
SystemExit(code) == [type |-> "SystemExit", code |-> code]
Error(type) == [type |-> type, code |-> 0]

NoXfer == [fn |-> "none", pc |-> "idle", files |-> <<>>, cwd |-> <<>>, k |-> 0,
           path |-> <<>>, entries |-> <<>>, closed |-> FALSE]
NoCmd == [pc |-> "idle", command |-> <<>>, silent |-> FALSE, handle |-> 0,
          out |-> <<>>, chunks |-> <<>>, gen |-> <<>>, code |-> 0, result |-> <<>>]

Top == stack[Len(stack)]
Env == config.heap[Top.env]
SetTop(f) == [stack EXCEPT ![Len(stack)] = f]

XferActive == xfer.pc \notin {"idle", "returned", "raised"}
CmdActive == cmd.pc \notin {"idle", "returned", "raised"}

\* the exec handle client.exec_create returns: one the client has not given
\* out before
NewHandle ==
    LET T(c) == c.op = "exec_create"
    IN  Len(SelectSeq(calls, T)) + 1

\* one call on the docker client or on a tar archive: what was called, with
\* what, what it gave back and whether it returned (ok) or raised, the exec
\* handle it created or was made on (0 for none), and the place of the run
\* that made it
Call(op, arg, data, ok) ==
    [op |-> op, arg |-> arg, data |-> data, ok |-> ok, i |-> i,
     handle |-> CASE op = "exec_create" -> NewHandle
                  [] op \in {"exec_start", "exec_inspect"} -> cmd.handle
                  [] OTHER -> 0,
     node |-> IF stack = <<>> THEN <<>> ELSE Top.env,
     phase |-> IF stack = <<>> THEN "main"
               ELSE IF XferActive THEN xfer.fn ELSE "run"]

RemoteOps == {"exec_create", "exec_start", "exec_inspect", "get_archive",
              "put_archive"}

BOLD(text) == [bold |-> TRUE, text |-> text]
Plain(text) == [bold |-> FALSE, text |-> text]

\* main is entered with moby.yml holding one of the given configurations
Start(configs) ==
    /\ config \in configs
    /\ pc = "load_config"
    /\ i = 1
    /\ stack = <<>>
    /\ xfer = NoXfer
    /\ cmd = NoCmd
    /\ exc = NoException
    /\ status = -1
    /\ calls = <<>>
    /\ log = <<>>
    /\ local = {}

Init == Start(Configs)

(***************************************************************************)
(* Exceptions.  Neither run_env nor push, pull or run_command has a try    *)
(* block: an exception raised inside main's try leaves every frame and     *)
(* reaches the finally clause of main.                                     *)
(***************************************************************************)
Propagate_without_finally(e) ==
    /\ exc' = e
    /\ stack' = <<>>
    /\ xfer' = IF XferActive THEN [xfer EXCEPT !.pc = "raised"] ELSE xfer
    /\ cmd' = IF CmdActive THEN [cmd EXCEPT !.pc = "raised"] ELSE cmd
    /\ pc' = "done"

Propagate(e) ==
    /\ exc' = e
    /\ stack' = <<>>
    /\ xfer' = IF XferActive THEN [xfer EXCEPT !.pc = "raised"] ELSE xfer
    /\ cmd' = IF CmdActive THEN [cmd EXCEPT !.pc = "raised"] ELSE cmd
    /\ pc' = "finally"

\* the exit status the interpreter gives the process for the exception
\* that leaves main (none: 0, SystemExit(code): code, any other: 1)
exit_status_ignoring_code(e) == IF e.type = "none" THEN 0 ELSE 1
exit_status(e) ==
    CASE e.type = "none" -> 0
      [] e.type = "SystemExit" -> e.code
      [] OTHER -> 1

(***************************************************************************)
(* main                                                                    *)
(***************************************************************************)
main_load_config ==
    /\ pc = "load_config"
    /\ pc' = "build_image"
    /\ UNCHANGED <<config, local, i, stack, xfer, cmd, exc, status, calls, log>>

build_image(ok) ==
    /\ pc = "build_image"
    /\ log' = Append(log, BOLD(<<"Building image...\n">>))
    /\ calls' = Append(calls, Call("build", <<>>, <<>>, ok))
    /\ IF ok
       THEN pc' = "start_container" /\ UNCHANGED <<exc, status>>
       ELSE pc' = "done" /\ exc' = Error("APIError") /\ status' = exit_status(exc')
    /\ UNCHANGED <<config, local, i, stack, xfer, cmd>>

StartOutcomes == {"started", "create_raises", "start_raises"}

start_container(outcome) ==
    /\ pc = "start_container"
    /\ log' = Append(log, BOLD(<<"Starting container...\n">>))
    /\ calls' = calls
          \o <<Call("create_container", <<>>, <<>>, outcome # "create_raises")>>
          \o (IF outcome = "create_raises" THEN <<>>
              ELSE <<Call("start", <<>>, <<>>, outcome = "started")>>)
    /\ IF outcome = "started"
       THEN pc' = "loop" /\ UNCHANGED <<exc, status>>
       ELSE pc' = "done" /\ exc' = Error("APIError") /\ status' = exit_status(exc')
    /\ UNCHANGED <<config, local, i, stack, xfer, cmd>>

PHASES == <<"before", "push", "run", "pull", "after", "return">>
PhaseIndex(p) == CHOOSE n \in 1..Len(PHASES) : PHASES[n] = p

\* the statement of run_env that follows phase p
after_phase_run_first(p) ==
    CASE p = "before" -> "run" [] p = "run" -> "push" [] p = "push" -> "pull"
      [] p = "pull" -> "after" [] OTHER -> "return"
after_phase_after_early(p) ==
    CASE p = "before" -> "after" [] p = "after" -> "push" [] p = "push" -> "run"
      [] p = "run" -> "pull" [] OTHER -> "return"
after_phase(p) == PHASES[PhaseIndex(p) + 1]

\* the activation record of run_env(client, container, env, logger)
Frame_skipping_before(id) == [env |-> id, pc |-> PHASES[2], k |-> 1]
Frame(id) == [env |-> id, pc |-> PHASES[1], k |-> 1]

\* the name main's for loop takes at its n-th iteration
envlist_reversed(n) == config.envlist[Len(config.envlist) + 1 - n]
envlist_at(n) == config.envlist[n]

\* for env in config['envlist']: run_env(client, container, config[env], logger)
main_loop ==
    /\ pc = "loop"
    /\ stack = <<>>
    /\ IF i > Len(config.envlist)
       THEN pc' = "finally" /\ UNCHANGED <<stack, xfer, cmd, exc>>
       ELSE IF <<envlist_at(i)>> \in DOMAIN config.heap
            THEN /\ stack' = <<Frame(<<envlist_at(i)>>)>>
                 /\ UNCHANGED <<pc, xfer, cmd, exc>>
            ELSE Propagate(Error("KeyError"))
    /\ UNCHANGED <<config, local, i, status, calls, log>>

stop_container(ok) ==
    /\ pc = "finally"
    /\ log' = Append(log, BOLD(<<"Stopping container...\n">>))
    /\ calls' = Append(calls, Call("stop", <<>>, <<>>, ok))
    /\ pc' = "done"
    /\ exc' = IF ok THEN exc ELSE Error("APIError")
    /\ status' = exit_status(exc')
    /\ UNCHANGED <<config, local, i, stack, xfer, cmd>>

(***************************************************************************)
(* run_env                                                                 *)
(***************************************************************************)
\* run_env is at statement p: the push, pull or run_command it called has
\* returned
InFrame_overlapping(p) ==
    /\ pc = "loop"
    /\ stack # <<>>
    /\ Top.pc = p
    /\ ~XferActive

InFrame(p) ==
    /\ pc = "loop"
    /\ stack # <<>>
    /\ Top.pc = p
    /\ ~XferActive
    /\ ~CmdActive

NewXfer_from_second(fn, files) ==
    [NoXfer EXCEPT !.fn = fn, !.pc = "pwd", !.files = files, !.k = 2]
NewXfer(fn, files) ==
    [NoXfer EXCEPT !.fn = fn, !.pc = "pwd", !.files = files, !.k = 1]
NewCmd(command, silent) ==
    [NoCmd EXCEPT !.pc = "create", !.command = command, !.silent = silent]

Advance(p) == SetTop([Top EXCEPT !.pc = after_phase(p)])

\* run_env has no check of its own on what it is called with: a call
\* nested deeper than the interpreter allows ends in a RecursionError
run_env_call(p, id) ==
    IF Len(stack) < MaxDepth
    THEN /\ stack' = Append(Advance(p), Frame(id))
         /\ UNCHANGED <<pc, xfer, cmd, exc>>
    ELSE Propagate(Error("RecursionError"))

run_env_before ==
    /\ InFrame("before")
    /\ IF "before" \in DOMAIN Env
       THEN run_env_call("before", Env.before)
       ELSE stack' = Advance("before") /\ UNCHANGED <<pc, xfer, cmd, exc>>
    /\ UNCHANGED <<config, local, i, status, calls, log>>

\* if 'push' in env / if 'pull' in env: the key is there, whatever it holds
contains_nonempty(env, key) == key \in DOMAIN env /\ env[key] # <<>>
contains(env, key) == key \in DOMAIN env

run_env_push ==
    /\ InFrame("push")
    /\ stack' = Advance("push")
    /\ xfer' = IF contains(Env, "push") THEN NewXfer("push", Env.push) ELSE xfer
    /\ UNCHANGED <<config, local, pc, i, cmd, exc, status, calls, log>>

\* env.get('run', [])
run_list(env) == IF "run" \in DOMAIN env THEN env.run ELSE <<>>

run_env_run ==
    /\ InFrame("run")
    /\ IF Top.k <= Len(run_list(Env))
       THEN /\ cmd' = NewCmd(run_list(Env)[Top.k], FALSE)
            /\ stack' = SetTop([Top EXCEPT !.k = @ + 1])
       ELSE /\ stack' = Advance("run")
            /\ UNCHANGED cmd
    /\ UNCHANGED <<config, local, pc, i, xfer, exc, status, calls, log>>

run_env_pull ==
    /\ InFrame("pull")
    /\ stack' = Advance("pull")
    /\ xfer' = IF contains(Env, "pull") THEN NewXfer("pull", Env.pull) ELSE xfer
    /\ UNCHANGED <<config, local, pc, i, cmd, exc, status, calls, log>>

run_env_after ==
    /\ InFrame("after")
    /\ IF "after" \in DOMAIN Env
       THEN run_env_call("after", Env.after)
       ELSE stack' = Advance("after") /\ UNCHANGED <<pc, xfer, cmd, exc>>
    /\ UNCHANGED <<config, local, i, status, calls, log>>

\* run_env returns: to the run_env that called it, or to main's loop
run_env_return ==
    /\ InFrame("return")
    /\ stack' = SubSeq(stack, 1, Len(stack) - 1)
    /\ i' = IF Len(stack) = 1 THEN i + 1 ELSE i
    /\ UNCHANGED <<config, local, pc, xfer, cmd, exc, status, calls, log>>

(***************************************************************************)
(* push                                                                    *)
(***************************************************************************)
InXfer(fn, p) ==
    /\ pc = "loop"
    /\ xfer.fn = fn
    /\ xfer.pc = p
    /\ ~CmdActive

\* cwd = run_command(client, container, 'pwd', logger, silent=True)
push_pwd ==
    /\ InXfer("push", "pwd")
    /\ cmd' = NewCmd(PWD, TRUE)
    /\ xfer' = [xfer EXCEPT !.pc = "open"]
    /\ UNCHANGED <<config, local, pc, i, stack, exc, status, calls, log>>

\* archive = tarfile.open(fileobj=archive_file, mode='w')
push_open ==
    /\ InXfer("push", "open")
    /\ calls' = Append(calls, Call("tarfile.open", <<"w">>, <<>>, TRUE))
    /\ xfer' = [xfer EXCEPT !.pc = "add", !.entries = <<>>, !.closed = FALSE]
    /\ UNCHANGED <<config, local, pc, i, stack, cmd, exc, status, log>>

\* TarFile.add(name) names the member after name without its leading '/'
RECURSIVE arcname(_)
arcname(name) == IF startswith(name, SEP) THEN arcname(Tail(name)) ELSE name

\* for path in files: archive.add(path)
push_add(ok) ==
    /\ InXfer("push", "add")
    /\ xfer.k <= Len(xfer.files)
    /\ calls' = Append(calls, Call("add", xfer.files[xfer.k], <<>>, ok))
    /\ IF ok
       THEN /\ xfer' = [xfer EXCEPT !.k = @ + 1,
                           !.entries = Append(@, arcname(xfer.files[xfer.k]))]
            /\ UNCHANGED <<pc, stack, cmd, exc>>
       ELSE Propagate(Error("OSError"))
    /\ UNCHANGED <<config, local, i, status, log>>

\* client.put_archive(container, cwd, archive_file.getvalue())
push_put_archive(ok) ==
    /\ InXfer("push", "add")
    /\ xfer.k > Len(xfer.files)
    /\ calls' = Append(calls, Call("put_archive", xfer.cwd,
                       [entries |-> xfer.entries, closed |-> xfer.closed], ok))
    /\ IF ok
       THEN /\ xfer' = [xfer EXCEPT !.pc = "returned"]
            /\ UNCHANGED <<pc, stack, cmd, exc>>
       ELSE Propagate(Error("APIError"))
    /\ UNCHANGED <<config, local, i, status, log>>

(***************************************************************************)
(* pull                                                                    *)
(***************************************************************************)
pull_pwd ==
    /\ InXfer("pull", "pwd")
    /\ cmd' = NewCmd(PWD, TRUE)
    /\ xfer' = [xfer EXCEPT !.pc = "loop"]
    /\ UNCHANGED <<config, local, pc, i, stack, exc, status, calls, log>>

\* for path in files: ... response = client.get_archive(container, path)[0]
pull_get_archive(ok) ==
    /\ InXfer("pull", "loop")
    /\ IF xfer.k > Len(xfer.files)
       THEN /\ xfer' = [xfer EXCEPT !.pc = "returned"]
            /\ UNCHANGED <<pc, stack, cmd, exc, calls>>
       ELSE LET path == resolve(xfer.cwd, xfer.files[xfer.k])
            IN  /\ calls' = Append(calls, Call("get_archive", path, <<>>, ok))
                /\ IF ok
                   THEN /\ xfer' = [xfer EXCEPT !.pc = "open", !.path = path]
                        /\ UNCHANGED <<pc, stack, cmd, exc>>
                   ELSE Propagate(Error("APIError"))
    /\ UNCHANGED <<config, local, i, status, log>>

\* archive_file = io.BytesIO(response.read())
\* archive = tarfile.open(fileobj=archive_file, mode='r')
pull_open(ok) ==
    /\ InXfer("pull", "open")
    /\ calls' = calls \o <<Call("read", xfer.path, <<>>, TRUE),
                           Call("tarfile.open", <<"r">>, <<>>, ok)>>
    /\ IF ok
       THEN /\ xfer' = [xfer EXCEPT !.pc = "extractall"]
            /\ UNCHANGED <<pc, stack, cmd, exc>>
       ELSE Propagate(Error("ReadError"))
    /\ UNCHANGED <<config, local, i, status, log>>

\* the current directory after the members of the archive fetched for path
\* have been written to it, all of them (whole) or only the first of them
extractall_forgetting(fs, path, whole) == {[path |-> path, whole |-> whole]}
extractall(fs, path, whole) == fs \cup {[path |-> path, whole |-> whole]}

\* archive.extractall(): when it raises, members may have been written
pull_extractall(ok) ==
    /\ InXfer("pull", "extractall")
    /\ calls' = Append(calls, Call("extractall", xfer.path, <<>>, ok))
    /\ IF ok
       THEN /\ local' = extractall(local, xfer.path, TRUE)
            /\ xfer' = [xfer EXCEPT !.pc = "loop", !.k = @ + 1]
            /\ UNCHANGED <<pc, stack, cmd, exc>>
       ELSE /\ \E some \in BOOLEAN :
                  local' = IF some THEN extractall(local, xfer.path, FALSE)
                           ELSE local
            /\ Propagate(Error("OSError"))
    /\ UNCHANGED <<config, i, status, log>>

(***************************************************************************)
(* run_command                                                             *)
(***************************************************************************)
InCmd(p) == pc = "loop" /\ cmd.pc = p

\* if not silent: logger.info(...)
logs_always(silent) == TRUE
logs(silent) == ~silent

\* if not silent: logger.info(...); command = client.exec_create(...)
run_command_create ==
    /\ InCmd("create")
    /\ log' = IF logs(cmd.silent)
              THEN Append(log, BOLD(<<"Running ">> \o cmd.command \o <<":\n">>))
              ELSE log
    /\ calls' = Append(calls, Call("exec_create", cmd.command, <<>>, TRUE))
    /\ cmd' = [cmd EXCEPT !.pc = "start", !.handle = NewHandle]
    /\ UNCHANGED <<config, local, pc, i, stack, xfer, exc, status>>

\* out_gen = client.exec_start(command, stream=True): the container decides
\* what the command writes and how it exits
run_command_start(pwd_outcomes, outcomes) ==
    /\ InCmd("start")
    /\ \E o \in IF cmd.command = PWD THEN pwd_outcomes ELSE outcomes :
          /\ calls' = Append(calls, Call("exec_start", cmd.command, o.chunks, TRUE))
          /\ cmd' = [cmd EXCEPT !.pc = "stream", !.chunks = o.chunks,
                                !.gen = o.chunks, !.code = o.code]
    /\ UNCHANGED <<config, local, pc, i, stack, xfer, exc, status, log>>

\* for line in out_gen: line = line.decode(); out.write(line); logger.info(line)
run_command_chunk ==
    /\ InCmd("stream")
    /\ cmd.gen # <<>>
    /\ LET line == decode(Head(cmd.gen))
       IN  IF line.ok
           THEN /\ cmd' = [cmd EXCEPT !.gen = Tail(@), !.out = @ \o line.text]
                /\ log' = IF logs(cmd.silent) THEN Append(log, Plain(line.text))
                          ELSE log
                /\ UNCHANGED <<pc, stack, xfer, exc>>
           ELSE /\ Propagate(Error("UnicodeDecodeError"))
                /\ UNCHANGED log
    /\ UNCHANGED <<config, local, i, status, calls>>

\* if exit_code: raise SystemExit(exit_code)
failed_never(exit_code) == FALSE
failed(exit_code) == exit_code # 0

\* the for loop over out_gen ends when the generator has nothing left
exhausted_always(gen) == TRUE
exhausted(gen) == gen = <<>>

\* command = client.exec_inspect(command) ... return out.getvalue().strip()
run_command_inspect ==
    /\ InCmd("stream")
    /\ exhausted(cmd.gen)
    /\ calls' = Append(calls, Call("exec_inspect", cmd.command, <<cmd.code>>, TRUE))
    /\ IF failed(cmd.code)
       THEN Propagate(SystemExit(cmd.code))
       ELSE /\ cmd' = [cmd EXCEPT !.pc = "returned", !.result = strip(cmd.out)]
            /\ xfer' = IF XferActive THEN [xfer EXCEPT !.cwd = strip(cmd.out)]
                       ELSE xfer
            /\ UNCHANGED <<pc, stack, exc>>
    /\ UNCHANGED <<config, local, i, status, log>>

(***************************************************************************)
(* The container of the runs of main: 'pwd' prints the working directory   *)
(* and a newline or fails; any other command prints a line and exits with  *)
(* 0 or with a nonzero code.                                               *)
(***************************************************************************)
Outcome(chunks, code) == [chunks |-> chunks, code |-> code]
PwdOutcomes == {Outcome(<< <<SEP, "a", "\n">> >>, 0), Outcome(<<>>, 1)}
RunOutcomes == {Outcome(<< <<"a", "\n">> >>, 0), Outcome(<< <<"a", "\n">> >>, 3)}

Next ==
    \/ main_load_config
    \/ \E ok \in BOOLEAN : build_image(ok)
    \/ \E outcome \in StartOutcomes : start_container(outcome)
    \/ main_loop
    \/ \E ok \in BOOLEAN : stop_container(ok)
    \/ run_env_before
    \/ run_env_push
    \/ run_env_run
    \/ run_env_pull
    \/ run_env_after
    \/ run_env_return
    \/ push_pwd
    \/ push_open
    \/ \E ok \in BOOLEAN : push_add(ok)
    \/ \E ok \in BOOLEAN : push_put_archive(ok)
    \/ pull_pwd
    \/ \E ok \in BOOLEAN : pull_get_archive(ok)
    \/ \E ok \in BOOLEAN : pull_open(ok)
    \/ \E ok \in BOOLEAN : pull_extractall(ok)
    \/ run_command_create
    \/ run_command_start(PwdOutcomes, RunOutcomes)
    \/ run_command_chunk
    \/ run_command_inspect

Spec == Init /\ [][Next]_vars

(***************************************************************************)
(* run_command on its own: main runs the single env {run: [command]} in a *)
(* container where the command streams any sequence of at most MaxChunks  *)
(* of the chunks below and exits with 0 or 3.  The chunks hold leading,   *)
(* inner and trailing whitespace, a two-byte character, and a two-byte    *)
(* character cut in two by the chunking of the stream.                    *)
(***************************************************************************)
ChunkSet == {<<"a">>, <<" ">>, <<"\n">>, <<" ", "a">>, <<"a", " ", "a", "\n">>,
             <<LeadByte, ContByte>>, <<LeadByte>>, <<ContByte, "a">>}
Streams == UNION {[1..n -> ChunkSet] : n \in 0..MaxChunks}
CmdOutcomes == {Outcome(chunks, code) : chunks \in Streams, code \in {0, 3}}

InitCmd ==
    Start({[envlist |-> <<"e1">>,
            heap |-> Heap(<<"e1">>, Leaf(Shape(-1, 1, -1)))]})

NextCmd ==
    \/ main_load_config
    \/ build_image(TRUE)
    \/ start_container("started")
    \/ main_loop
    \/ \E ok \in BOOLEAN : stop_container(ok)
    \/ run_env_before
    \/ run_env_push
    \/ run_env_run
    \/ run_env_pull
    \/ run_env_after
    \/ run_env_return
    \/ run_command_create
    \/ run_command_start(PwdOutcomes, CmdOutcomes)
    \/ run_command_chunk
    \/ run_command_inspect

SpecCmd == InitCmd /\ [][NextCmd]_vars

(***************************************************************************)
(* push and pull on their own: main runs the single env {push: paths} or  *)
(* {pull: paths}, for every list of at most MaxPaths of the paths below   *)
(* (relative, absolute, nested, empty), in a container whose working      *)
(* directory is the root, a directory or a nested directory, or whose pwd *)
(* fails.                                                                 *)
(***************************************************************************)
TransferPaths == {<<"a">>, <<SEP, "b">>, <<"a", SEP, "c">>, <<>>}
PathLists == UNION {[1..n -> TransferPaths] : n \in 0..MaxPaths}
CwdOutcomes == {Outcome(<< <<SEP, "\n">> >>, 0),
                Outcome(<< <<SEP, "a", "\n">> >>, 0),
                Outcome(<< <<SEP, "a">>, <<SEP, "b", "\n">> >>, 0),
                Outcome(<<>>, 1)}

InitTransfer ==
    Start({[envlist |-> <<"e1">>, heap |-> (<<"e1">> :> [push |-> l])] :
               l \in PathLists}
          \cup {[envlist |-> <<"e1">>, heap |-> (<<"e1">> :> [pull |-> l])] :
               l \in PathLists})

NextTransfer ==
    \/ main_load_config
    \/ build_image(TRUE)
    \/ start_container("started")
    \/ main_loop
    \/ \E ok \in BOOLEAN : stop_container(ok)
    \/ run_env_before
    \/ run_env_push
    \/ run_env_run
    \/ run_env_pull
    \/ run_env_after
    \/ run_env_return
    \/ push_pwd
    \/ push_open
    \/ \E ok \in BOOLEAN : push_add(ok)
    \/ \E ok \in BOOLEAN : push_put_archive(ok)
    \/ pull_pwd
    \/ \E ok \in BOOLEAN : pull_get_archive(ok)
    \/ \E ok \in BOOLEAN : pull_open(ok)
    \/ \E ok \in BOOLEAN : pull_extractall(ok)
    \/ run_command_create
    \/ run_command_start(CwdOutcomes, RunOutcomes)
    \/ run_command_chunk
    \/ run_command_inspect

SpecTransfer == InitTransfer /\ [][NextTransfer]_vars

(***************************************************************************)
(* run_command silent and not silent: main runs either the env             *)
(* {run: ['pwd']}, whose command is run with silent=False, or the env      *)
(* {pull: []}, whose pull runs the same command with silent=True, in a     *)
(* container where 'pwd' streams any of the Streams and exits with 0 or 3. *)
(***************************************************************************)
InitSilent ==
    Start({[envlist |-> <<"e1">>, heap |-> (<<"e1">> :> [run |-> <<PWD>>])],
           [envlist |-> <<"e1">>, heap |-> (<<"e1">> :> [pull |-> <<>>])]})

NextSilent ==
    \/ main_load_config
    \/ build_image(TRUE)
    \/ start_container("started")
    \/ main_loop
    \/ \E ok \in BOOLEAN : stop_container(ok)
    \/ run_env_before
    \/ run_env_push
    \/ run_env_run
    \/ run_env_pull
    \/ run_env_after
    \/ run_env_return
    \/ pull_pwd
    \/ pull_get_archive(TRUE)
    \/ run_command_create
    \/ run_command_start(CmdOutcomes, CmdOutcomes)
    \/ run_command_chunk
    \/ run_command_inspect

SpecSilent == InitSilent /\ [][NextSilent]_vars

(***************************************************************************)
(* Configurations with aliases: moby.yml may anchor an env dict and refer  *)
(* to it from inside itself, so that the dict is its own 'before'          *)
(* (e1: &a {before: *a, ...}), or the 'before' of its own 'before'.  main  *)
(* runs one of these, or one of the trees of a few of the Configs, every   *)
(* step of the program being taken when it can be.                         *)
(***************************************************************************)
WithBefore(env, id) ==
    [key \in DOMAIN env \cup {"before"} |->
        IF key = "before" THEN id ELSE env[key]]

SelfBefore(shape) ==
    [envlist |-> <<"e1">>,
     heap |-> (<<"e1">> :> WithBefore(Dict(<<"e1">>, shape, FALSE, FALSE), <<"e1">>))]

MutualBefore(shape) ==
    [envlist |-> <<"e1">>,
     heap |-> (<<"e1">> :> WithBefore(Dict(<<"e1">>, shape, FALSE, FALSE), <<"e2">>))
              @@ (<<"e2">> :> WithBefore(Dict(<<"e2">>, Full, FALSE, FALSE), <<"e1">>))]

AliasShapes == {Shape(-1, -1, -1), Shape(-1, 1, -1), Full}

RecConfigs ==
    {SelfBefore(s) : s \in AliasShapes}
    \cup {MutualBefore(s) : s \in AliasShapes}
    \cup {Cfg(<<"e1">>, DeepTree)}
    \cup {Cfg(<<"e1", "e2">>, t) : t \in ListTrees}

InitRec == Start(RecConfigs)

SpecRec == InitRec /\ [][Next]_vars /\ WF_vars(Next)

(***************************************************************************)
(* Reading the history.                                                    *)
(***************************************************************************)
IsPrefix(p, q) == Len(p) <= Len(q) /\ SubSeq(q, 1, Len(p)) = p
IsSuffix(p, q) == Len(p) <= Len(q) /\ SubSeq(q, Len(q) - Len(p) + 1, Len(q)) = p
Last(q) == q[Len(q)]
Count(q, T(_)) == Len(SelectSeq(q, T))

IsRemote(c) == c.op \in RemoteOps
\* an exec_inspect that reported a nonzero exit status
NonzeroExit(c) == c.op = "exec_inspect" /\ c.data[1] # 0
Resolvable(name) == <<name>> \in DOMAIN config.heap
Started == \E n \in 1..Len(calls) : calls[n].op = "start" /\ calls[n].ok

\* the commands of the run lists, in the order their execs were created
RunCommands(n) ==
    LET T(c) == c.op = "exec_create" /\ c.phase = "run" /\ c.i = n
        sel == SelectSeq(calls, T)
    IN  [j \in 1..Len(sel) |-> sel[j].arg]

\* depth-first flattening of the env dict id: before, own run list, after
RECURSIVE Flatten(_)
Flatten(id) ==
    LET env == config.heap[id]
    IN  (IF "before" \in DOMAIN env THEN Flatten(env.before) ELSE <<>>)
        \o (IF "run" \in DOMAIN env THEN env.run ELSE <<>>)
        \o (IF "after" \in DOMAIN env THEN Flatten(env.after) ELSE <<>>)

(***************************************************************************)
(* C1  Abort on first failure: once an exec_inspect has reported a nonzero *)
(* exit status, the only call made afterwards is the stop of the           *)
(* container: no exec, no archive fetch, no upload, for no later command,  *)
(* phase, enclosing env or later environment of the list.                  *)
(***************************************************************************)
C1_AbortOnFirstFailure ==
    \A m \in 1..Len(calls) :
        NonzeroExit(calls[m]) =>
            \A n \in (m + 1)..Len(calls) :
                /\ calls[n].op = "stop"
                /\ n = Len(calls)

\* a command of a nested 'before' failed while its parent had phases left
\* and a second environment was listed; the run is over
C1_Witness ==
    /\ pc = "done"
    /\ Len(config.envlist) = 2
    /\ Resolvable(config.envlist[2])
    /\ \E m \in 1..Len(calls) :
          /\ NonzeroExit(calls[m])
          /\ calls[m].i = 1
          /\ Len(calls[m].node) = 2
          /\ Last(calls[m].node) = "before"
          /\ {"push", "run", "pull", "after"} \subseteq
                 DOMAIN config.heap[<<config.envlist[1]>>]
          /\ m < Len(calls)

(***************************************************************************)
(* C2  Phase order: for every env dict at every depth the calls made for   *)
(* it come in the order before, push, run, pull, after, and in a run that  *)
(* ends successfully every present phase of every listed env dict has been *)
(* performed exactly once.                                                 *)
(***************************************************************************)
\* the phase of env dict id that call c belongs to, 0 when to none
PhaseRank(c, id) ==
    IF c.node = <<>> THEN 0
    ELSE IF IsPrefix(Append(id, "before"), c.node) THEN 1
    ELSE IF c.node = id /\ c.phase = "push" THEN 2
    ELSE IF c.node = id /\ c.phase = "run" THEN 3
    ELSE IF c.node = id /\ c.phase = "pull" THEN 4
    ELSE IF IsPrefix(Append(id, "after"), c.node) THEN 5
    ELSE 0

\* the calls made for env dict id during the n-th iteration of main's loop
CallsOf(n, id) ==
    LET T(c) == c.i = n /\ PhaseRank(c, id) > 0
    IN  SelectSeq(calls, T)

\* how often the phase was entered: the pwd query of a transfer, the exec
\* of the k-th command of the run list
Entered(n, id, phase, command) ==
    LET T(c) == /\ c.op = "exec_create" /\ c.i = n /\ c.node = id
                /\ c.phase = phase /\ c.arg = command
    IN  Count(calls, T)

Uploaded(n, id) ==
    LET T(c) == c.op = "put_archive" /\ c.i = n /\ c.node = id /\ c.ok
    IN  Count(calls, T)

NodesOf(n) == {id \in DOMAIN config.heap : id[1] = config.envlist[n]}

C2_PhaseOrder ==
    \A n \in 1..Len(config.envlist) :
        Resolvable(config.envlist[n]) =>
            \A id \in NodesOf(n) :
                LET own == CallsOf(n, id)
                    rank == [j \in 1..Len(own) |-> PhaseRank(own[j], id)]
                    env == config.heap[id]
                IN  /\ \A j \in 1..(Len(own) - 1) : rank[j] <= rank[j + 1]
                    /\ "push" \in DOMAIN env =>
                           /\ Entered(n, id, "push", PWD) <= 1
                           /\ status = 0 => Entered(n, id, "push", PWD) = 1
                           /\ status = 0 => Uploaded(n, id) = 1
                    /\ "pull" \in DOMAIN env =>
                           /\ Entered(n, id, "pull", PWD) <= 1
                           /\ status = 0 => Entered(n, id, "pull", PWD) = 1
                    /\ "push" \notin DOMAIN env => Entered(n, id, "push", PWD) = 0
                    /\ "pull" \notin DOMAIN env => Entered(n, id, "pull", PWD) = 0
                    /\ "run" \in DOMAIN env =>
                           \A k \in 1..Len(env.run) :
                               /\ Entered(n, id, "run", env.run[k]) <= 1
                               /\ status = 0 => Entered(n, id, "run", env.run[k]) = 1

\* a successful run of an env dict with all five phases, each of which
\* made calls
C2_Witness ==
    /\ status = 0
    /\ \E id \in DOMAIN config.heap :
          /\ DOMAIN config.heap[id] = {"before", "push", "run", "pull", "after"}
          /\ {PhaseRank(calls[j], id) : j \in 1..Len(calls)} = 0..5

(***************************************************************************)
(* C3  Flattened command order: the commands of the run lists executed by  *)
(* one run_env call of main are, in order, a prefix of the depth-first     *)
(* flattening of the env dict (before, own run list, after), and the       *)
(* whole of it once run_env has returned; without before and after that    *)
(* is the run list itself.                                                 *)
(***************************************************************************)
C3_FlattenedOrder ==
    \A n \in 1..Len(config.envlist) :
        Resolvable(config.envlist[n]) =>
            /\ IsPrefix(RunCommands(n), Flatten(<<config.envlist[n]>>))
            /\ (n < i \/ status = 0) =>
                   RunCommands(n) = Flatten(<<config.envlist[n]>>)

\* run_env has returned for a tree with commands at the root, in a nested
\* before and in a nested after
C3_Witness ==
    /\ i = 2
    /\ LET root == <<config.envlist[1]>>
       IN  /\ Resolvable(config.envlist[1])
           /\ {"before", "run", "after"} \subseteq DOMAIN config.heap[root]
           /\ Len(config.heap[root].run) = MaxRun
           /\ Len(Flatten(root)) >= MaxRun + 2
           /\ RunCommands(1) = Flatten(root)

(***************************************************************************)
(* C4  run_command result contract (as amended): for every sequence of     *)
(* chunks each of which decodes on its own, run_command returns, when the  *)
(* exit code is 0, the concatenation of the decoded chunks in arrival      *)
(* order with the whitespace at BOTH ends removed and nothing else, and    *)
(* raises SystemExit with exactly the exit code, returning nothing, when   *)
(* the code is not 0.  A chunk that does not decode ends the command with  *)
(* a UnicodeDecodeError whatever the exit code.                            *)
(***************************************************************************)
Decodable(chunks) == \A j \in 1..Len(chunks) : decode(chunks[j]).ok
TextOf(chunks) == concat([j \in 1..Len(chunks) |-> decode(chunks[j]).text])

\* r is t without the whitespace at its two ends
IsStripped(t, r) ==
    \E lo \in 1..(Len(t) + 1), hi \in 0..Len(t) :
        /\ r = SubSeq(t, lo, hi)
        /\ \A j \in 1..(lo - 1) : t[j] \in Whitespace
        /\ \A j \in (hi + 1)..Len(t) : t[j] \in Whitespace
        /\ r # <<>> => r[1] \notin Whitespace /\ Last(r) \notin Whitespace

\* r is t without the whitespace at its end, and nothing else removed
IsRightStripped(t, r) ==
    \E hi \in 0..Len(t) :
        /\ r = SubSeq(t, 1, hi)
        /\ \A j \in (hi + 1)..Len(t) : t[j] \in Whitespace
        /\ r # <<>> => Last(r) \notin Whitespace

C4_ResultContract ==
    /\ cmd.pc = "returned" =>
           /\ cmd.code = 0
           /\ Decodable(cmd.chunks)
           /\ IsStripped(TextOf(cmd.chunks), cmd.result)
    /\ cmd.pc = "raised" =>
           /\ cmd.result = <<>>
           /\ Decodable(cmd.chunks) => cmd.code # 0
           /\ (pc = "finally" /\ Decodable(cmd.chunks)) =>
                  exc = SystemExit(cmd.code)
           /\ (pc = "finally" /\ ~Decodable(cmd.chunks)) =>
                  exc = Error("UnicodeDecodeError")
    /\ pc = "done" => cmd.pc \in {"returned", "raised"}

\* two chunks, whitespace at both ends of their concatenation, exit code 0
C4_Witness ==
    /\ cmd.pc = "returned"
    /\ Len(cmd.chunks) = 2
    /\ TextOf(cmd.chunks)[1] \in Whitespace
    /\ Last(TextOf(cmd.chunks)) \in Whitespace
    /\ cmd.result # <<>>

\* the claim as stated: only trailing whitespace is removed
C4_AsStated ==
    cmd.pc = "returned" => IsRightStripped(TextOf(cmd.chunks), cmd.result)

(***************************************************************************)
(* C5  Process exit code (as amended): when a command has exited with a    *)
(* nonzero code the process ends with exactly that code PROVIDED the stop  *)
(* of the container returns; when the stop raises, its exception replaces  *)
(* the SystemExit and the process ends with status 1.                      *)
(***************************************************************************)
C5_ExitCode ==
    pc = "done" =>
        \A m \in 1..Len(calls) :
            NonzeroExit(calls[m]) =>
                /\ Last(calls).op = "stop"
                /\ Last(calls).ok =>
                       status = calls[m].data[1] /\ exc = SystemExit(status)
                /\ ~Last(calls).ok =>
                       status = 1 /\ exc = Error("APIError")

\* a command of a nested env exited with 3 and the stop returned
C5_Witness ==
    /\ pc = "done"
    /\ Last(calls).op = "stop"
    /\ Last(calls).ok
    /\ \E m \in 1..Len(calls) :
          /\ NonzeroExit(calls[m])
          /\ calls[m].data[1] = 3
          /\ Len(calls[m].node) = 2

\* the claim as stated: that code, whatever happens during the stop
C5_AsStated ==
    pc = "done" =>
        \A m \in 1..Len(calls) :
            NonzeroExit(calls[m]) => status = calls[m].data[1]

(***************************************************************************)
(* C6  Environment list order: the calls of the run are made for the       *)
(* names of envlist in listed order, those of the n-th name all before     *)
(* those of the (n+1)-th; the run_env frame at the bottom of the stack is  *)
(* that of the name main's loop is at, and once the loop has passed a name *)
(* each command of that env's run list has been executed exactly once.     *)
(***************************************************************************)
RunCalls ==
    LET T(c) == c.node # <<>>
    IN  SelectSeq(calls, T)

C6_EnvlistOrder ==
    LET made == RunCalls
    IN  /\ \A n \in 1..Len(made) :
              /\ made[n].i \in 1..Len(config.envlist)
              /\ made[n].i <= i
              /\ made[n].node[1] = config.envlist[made[n].i]
        /\ \A n \in 1..(Len(made) - 1) : made[n].i <= made[n + 1].i
        /\ stack # <<>> => stack[1].env = <<config.envlist[i]>>
        /\ \A n \in 1..Len(config.envlist) :
              (n < i /\ Resolvable(config.envlist[n])) =>
                  LET root == config.heap[<<config.envlist[n]>>]
                  IN  "run" \in DOMAIN root =>
                          \A k \in 1..Len(root.run) :
                              Entered(n, <<config.envlist[n]>>, "run", root.run[k]) = 1

\* both environments of the list <<e2, e1>> have run
C6_Witness ==
    /\ status = 0
    /\ config.envlist = <<"e2", "e1">>
    /\ \E m, n \in 1..Len(RunCalls) :
          m < n /\ RunCalls[m].i = 1 /\ RunCalls[n].i = 2

(***************************************************************************)
(* C7  Transfer call counts: the calls of one push are one pwd query       *)
(* (exec_create, exec_start, exec_inspect), the opening of the archive,    *)
(* one add per listed path and one put_archive, whatever the number of     *)
(* paths; those of one pull are one pwd query and then, per listed path    *)
(* and in listed order, one get_archive followed by its read, open and     *)
(* extractall before the next get_archive.  A call that fails ends the     *)
(* sequence there.                                                         *)
(***************************************************************************)
RECURSIVE Times(_, _)
Times(q, n) == IF n = 0 THEN <<>> ELSE q \o Times(q, n - 1)

PwdOps == <<"exec_create", "exec_start", "exec_inspect">>
PushOps(n) == PwdOps \o <<"tarfile.open">> \o Times(<<"add">>, n) \o <<"put_archive">>
PullOps(n) ==
    PwdOps \o Times(<<"get_archive", "read", "tarfile.open", "extractall">>, n)

TransferCalls(n, id, fn) ==
    LET T(c) == c.i = n /\ c.node = id /\ c.phase = fn
    IN  SelectSeq(calls, T)
OpsOf(q) == [j \in 1..Len(q) |-> q[j].op]
Fetches(q) ==
    LET T(c) == c.op = "get_archive"
    IN  SelectSeq(q, T)

C7_TransferCounts ==
    \A n \in 1..Len(config.envlist) :
        Resolvable(config.envlist[n]) =>
            \A id \in NodesOf(n) :
                LET env == config.heap[id]
                    pushed == TransferCalls(n, id, "push")
                    pulled == TransferCalls(n, id, "pull")
                    over == n < i \/ status = 0
                IN  /\ "push" \in DOMAIN env =>
                        /\ IsPrefix(OpsOf(pushed), PushOps(Len(env.push)))
                        /\ over => OpsOf(pushed) = PushOps(Len(env.push))
                    /\ "pull" \in DOMAIN env =>
                        /\ IsPrefix(OpsOf(pulled), PullOps(Len(env.pull)))
                        /\ over => OpsOf(pulled) = PullOps(Len(env.pull))
                        /\ \A j \in 1..Len(Fetches(pulled)) :
                               IsSuffix(env.pull[j], Fetches(pulled)[j].arg)

\* a run that succeeded with a push and a pull of MaxPaths paths each
C7_Witness ==
    /\ status = 0
    /\ \E id \in DOMAIN config.heap :
          /\ {"push", "pull"} \subseteq DOMAIN config.heap[id]
          /\ Len(config.heap[id].push) = MaxPaths
          /\ Len(config.heap[id].pull) = MaxPaths
          /\ Len(Fetches(TransferCalls(1, id, "pull"))) = MaxPaths

(***************************************************************************)
(* C8  Pull path resolution: the path of the j-th get_archive of a pull is *)
(* the j-th listed path unchanged when that starts with '/', and otherwise *)
(* the working directory returned by the pwd query, one '/' unless the     *)
(* directory already ends with one, and the listed path; it always starts  *)
(* with '/'.                                                               *)
(***************************************************************************)
C8_PullPathResolution ==
    xfer.fn = "pull" =>
        LET fetched == Fetches(calls)
        IN  /\ Len(fetched) <= Len(xfer.files)
            /\ \A j \in 1..Len(fetched) :
                  LET listed == xfer.files[j]
                      path == fetched[j].arg
                  IN  /\ startswith(listed, SEP) => path = listed
                      /\ (~startswith(listed, SEP) /\ endswith(xfer.cwd, SEP)) =>
                             path = xfer.cwd \o listed
                      /\ (~startswith(listed, SEP) /\ ~endswith(xfer.cwd, SEP)) =>
                             path = xfer.cwd \o <<SEP>> \o listed
                      /\ startswith(path, SEP)

\* a pull of a relative and an absolute path from the root directory
C8_Witness ==
    /\ xfer.fn = "pull"
    /\ xfer.pc = "returned"
    /\ xfer.cwd = <<SEP>>
    /\ xfer.files = << <<"a">>, <<SEP, "b">> >>
    /\ Len(Fetches(calls)) = 2

(***************************************************************************)
(* C9  Container stop guarantee: once the container has been started,      *)
(* main calls stop exactly once, as the last call of the run, however the  *)
(* environment list ended; stop is never called on a container that was    *)
(* not started.                                                            *)
(***************************************************************************)
IsStop(c) == c.op = "stop"

C9_StopGuarantee ==
    /\ Count(calls, IsStop) <= 1
    /\ \A m \in 1..Len(calls) : IsStop(calls[m]) => m = Len(calls) /\ Started
    /\ (pc = "done" /\ Started) => IsStop(Last(calls))
    /\ (pc \in {"loop", "finally"}) => Started /\ Count(calls, IsStop) = 0

\* the run ended on a failed transfer of a second environment, and stopped
\* the container
C9_Witness ==
    /\ pc = "done"
    /\ i = 2
    /\ \E m \in 1..Len(calls) :
          ~calls[m].ok /\ calls[m].op \in {"get_archive", "put_archive"}
    /\ IsStop(Last(calls))

(***************************************************************************)
(* C10  Unresolved envlist name (as amended): the name is only looked up   *)
(* when main's loop reaches it.  The KeyError is raised with the image     *)
(* built and the container started, after every environment listed before  *)
(* the name has run completely; no call is made for the unresolved name or *)
(* for a name listed after it, and the process does not exit with 0.       *)
(***************************************************************************)
Unresolved == {n \in 1..Len(config.envlist) : ~Resolvable(config.envlist[n])}

C10_UnresolvedName ==
    /\ (pc = "finally" /\ exc.type = "KeyError") =>
           /\ Started
           /\ i \in Unresolved
           /\ \A n \in 1..(i - 1) :
                  /\ n \notin Unresolved
                  /\ RunCommands(n) = Flatten(<<config.envlist[n]>>)
    /\ \A u \in Unresolved :
           /\ \A n \in 1..Len(RunCalls) : RunCalls[n].i < u
           /\ i <= u
           /\ pc = "done" => status # 0

\* the KeyError for the second name of the list, after the first
\* environment has executed its commands
C10_Witness ==
    /\ pc = "finally"
    /\ exc.type = "KeyError"
    /\ i = 2
    /\ Len(RunCommands(1)) >= 2

\* the claim as stated: with an unresolved name in envlist no image is
\* built, no container created or started, and no environment runs
C10_AsStated ==
    Unresolved # {} =>
        \A m \in 1..Len(calls) :
            /\ calls[m].op \notin {"build", "create_container", "start"}
            /\ ~IsRemote(calls[m])

(***************************************************************************)
(* C11  Transfer lists (as amended): run_env calls push exactly when the   *)
(* key 'push' is present and pull exactly when the key 'pull' is present,  *)
(* whatever the length of the list.  For a push list that is present and   *)
(* empty the phase issues the pwd query and uploads an archive without     *)
(* entries; for a pull list that is present and empty it issues the pwd    *)
(* query and fetches nothing.  For an absent key the phase makes no call.  *)
(***************************************************************************)
Uploads(q) ==
    LET T(c) == c.op = "put_archive"
    IN  SelectSeq(q, T)

C11_TransferPresence ==
    \A n \in 1..Len(config.envlist) :
        Resolvable(config.envlist[n]) =>
            \A id \in NodesOf(n) :
                LET env == config.heap[id]
                    pushed == TransferCalls(n, id, "push")
                    pulled == TransferCalls(n, id, "pull")
                    over == n < i \/ status = 0
                IN  /\ "push" \notin DOMAIN env => pushed = <<>>
                    /\ "pull" \notin DOMAIN env => pulled = <<>>
                    /\ ("push" \in DOMAIN env /\ over) =>
                           /\ IsPrefix(PwdOps, OpsOf(pushed))
                           /\ Len(Uploads(pushed)) = 1
                    /\ ("pull" \in DOMAIN env /\ over) =>
                           /\ IsPrefix(PwdOps, OpsOf(pulled))
                           /\ Len(Fetches(pulled)) = Len(env.pull)
                    /\ ("push" \in DOMAIN env /\ env.push = <<>>) =>
                           /\ IsPrefix(OpsOf(pushed), PushOps(0))
                           /\ \A j \in 1..Len(Uploads(pushed)) :
                                  Uploads(pushed)[j].data.entries = <<>>
                    /\ ("pull" \in DOMAIN env /\ env.pull = <<>>) =>
                           IsPrefix(OpsOf(pulled), PwdOps)

\* a successful run of an env dict whose push and pull lists are both
\* present and empty: each phase made its pwd query, the push its upload
C11_Witness ==
    /\ status = 0
    /\ \E id \in DOMAIN config.heap :
          LET env == config.heap[id]
          IN  /\ {"push", "pull"} \subseteq DOMAIN env
              /\ env.push = <<>>
              /\ env.pull = <<>>
              /\ OpsOf(TransferCalls(1, id, "push")) = PushOps(0)
              /\ OpsOf(TransferCalls(1, id, "pull")) = PwdOps

\* the claim as stated: a phase whose list is present and empty makes no
\* pwd query, no upload and no fetch
C11_AsStated ==
    \A n \in 1..Len(config.envlist) :
        Resolvable(config.envlist[n]) =>
            \A id \in NodesOf(n) :
                LET env == config.heap[id]
                IN  /\ ("push" \in DOMAIN env /\ env.push = <<>>) =>
                           TransferCalls(n, id, "push") = <<>>
                    /\ ("pull" \in DOMAIN env /\ env.pull = <<>>) =>
                           TransferCalls(n, id, "pull") = <<>>

(***************************************************************************)
(* C12  All-or-first-failure: the operations a run performs before the     *)
(* stop of the container are always a prefix of the operation sequence of  *)
(* the successful run of its configuration, which performs every present   *)
(* phase of every env dict of every listed environment once, in order.     *)
(* No operation but the last performed has failed.  A run that ends with   *)
(* status 0 has performed the whole sequence; a run that ends otherwise    *)
(* stopped at the operation that failed, at the lookup of an unresolved    *)
(* name, or failed in the stop itself.                                     *)
(***************************************************************************)
Op(op, n, id, phase, arg) ==
    [op |-> op, i |-> n, node |-> id, phase |-> phase, arg |-> arg]
Sig(c) == Op(c.op, c.i, c.node, c.phase, c.arg)
Sigs(q) == [j \in 1..Len(q) |-> Sig(q[j])]

\* the working directory the pwd of the container prints when it succeeds
GoodPwd == CHOOSE o \in PwdOutcomes : o.code = 0
GoodCwd == IF Decodable(GoodPwd.chunks) THEN strip(TextOf(GoodPwd.chunks)) ELSE <<>>

ExecOps(n, id, phase, command) ==
    [j \in 1..Len(PwdOps) |-> Op(PwdOps[j], n, id, phase, command)]

RECURSIVE RunListOps(_, _, _)
RunListOps(n, id, run) ==
    IF run = <<>> THEN <<>>
    ELSE ExecOps(n, id, "run", Head(run)) \o RunListOps(n, id, Tail(run))

RECURSIVE AddOps(_, _, _)
AddOps(n, id, files) ==
    IF files = <<>> THEN <<>>
    ELSE <<Op("add", n, id, "push", Head(files))>> \o AddOps(n, id, Tail(files))

RECURSIVE FetchOps(_, _, _)
FetchOps(n, id, files) ==
    IF files = <<>> THEN <<>>
    ELSE LET path == IF startswith(Head(files), SEP) THEN Head(files)
                     ELSE GoodCwd \o <<SEP>> \o Head(files)
         IN  <<Op("get_archive", n, id, "pull", path),
               Op("read", n, id, "pull", path),
               Op("tarfile.open", n, id, "pull", <<"r">>),
               Op("extractall", n, id, "pull", path)>>
             \o FetchOps(n, id, Tail(files))

\* the operations of the successful run of env dict id
RECURSIVE EnvOps(_, _)
EnvOps(n, id) ==
    LET env == config.heap[id]
    IN  (IF "before" \in DOMAIN env THEN EnvOps(n, env.before) ELSE <<>>)
        \o (IF "push" \in DOMAIN env
            THEN ExecOps(n, id, "push", PWD)
                 \o <<Op("tarfile.open", n, id, "push", <<"w">>)>>
                 \o AddOps(n, id, env.push)
                 \o <<Op("put_archive", n, id, "push", GoodCwd)>>
            ELSE <<>>)
        \o (IF "run" \in DOMAIN env THEN RunListOps(n, id, env.run) ELSE <<>>)
        \o (IF "pull" \in DOMAIN env
            THEN ExecOps(n, id, "pull", PWD) \o FetchOps(n, id, env.pull)
            ELSE <<>>)
        \o (IF "after" \in DOMAIN env THEN EnvOps(n, env.after) ELSE <<>>)

\* those of the environments listed from the n-th on, up to the first name
\* that does not resolve
RECURSIVE ListOps(_)
ListOps(n) ==
    IF n > Len(config.envlist) \/ ~Resolvable(config.envlist[n]) THEN <<>>
    ELSE EnvOps(n, <<config.envlist[n]>>) \o ListOps(n + 1)

MainOps ==
    <<Op("build", 1, <<>>, "main", <<>>),
      Op("create_container", 1, <<>>, "main", <<>>),
      Op("start", 1, <<>>, "main", <<>>)>>
    \o ListOps(1)

NotStop(c) == ~IsStop(c)
Failed(c) == ~c.ok \/ NonzeroExit(c)

C12_AllOrFirstFailure ==
    LET made == SelectSeq(calls, NotStop)
        stopped == Count(calls, IsStop) = 1
    IN  /\ IsPrefix(Sigs(made), MainOps)
        /\ \A m \in 1..(Len(made) - 1) : ~Failed(made[m])
        /\ (made # <<>> /\ Failed(Last(made))) => pc \in {"finally", "done"}
        /\ (pc = "done" /\ status = 0) =>
               /\ Sigs(made) = MainOps
               /\ Unresolved = {}
               /\ \A m \in 1..Len(calls) : ~Failed(calls[m])
        /\ (pc = "done" /\ status # 0) =>
               \/ Failed(Last(made))
               \/ Sigs(made) = MainOps /\ Unresolved # {}
               \/ Sigs(made) = MainOps /\ stopped /\ ~Last(calls).ok
        /\ (pc = "done" /\ Sigs(made) = MainOps /\ Unresolved = {}
              /\ \A m \in 1..Len(calls) : ~Failed(calls[m])) => status = 0

\* a run stopped by the failed fetch of a nested env dict, with operations
\* of its successful run left undone
C12_Witness ==
    /\ pc = "done"
    /\ status # 0
    /\ LET made == SelectSeq(calls, NotStop)
       IN  /\ Last(made).op = "get_archive"
           /\ ~Last(made).ok
           /\ Len(Last(made).node) = 2
           /\ Len(made) + 4 < Len(MainOps)
           /\ IsStop(Last(calls))

(***************************************************************************)
(* C13  run_command protocol order (as amended): every invocation issues   *)
(* one exec_create, then one exec_start on the handle created, then takes  *)
(* the chunks of the stream in order; when not silent the header line is   *)
(* logged before the start and each chunk is logged as it is taken, in     *)
(* arrival order.  When every chunk decodes, the one exec_inspect is made  *)
(* on the same handle only once the stream is exhausted, so the whole      *)
(* output of a failing command is logged before SystemExit is raised.  At  *)
(* a chunk that does not decode the invocation ends with a                 *)
(* UnicodeDecodeError: the chunks before it are logged, the rest of the    *)
(* stream is not taken, and no exec_inspect is made.                       *)
(***************************************************************************)
ExecCalls(h) ==
    LET T(c) == c.handle = h
    IN  SelectSeq(calls, T)

Header(command) == BOLD(<<"Running ">> \o command \o <<":\n">>)
Stopping == BOLD(<<"Stopping container...\n">>)
IsHeader(l) == l.bold /\ l.text[1] = "Running "
\* the log lines that follow the last header line, the line of the stop
\* left out
SinceHeader ==
    LET at == {p \in 1..Len(log) : IsHeader(log[p])}
        p == CHOOSE q \in at : \A r \in at : r <= q
        T(l) == l # Stopping
    IN  SelectSeq(SubSeq(log, p + 1, Len(log)), T)

\* the chunks taken from the stream so far, as logged
Taken(c) ==
    [j \in 1..(Len(c.chunks) - Len(c.gen)) |-> Plain(decode(c.chunks[j]).text)]

C13_ProtocolOrder ==
    /\ \A h \in 1..(NewHandle - 1) :
           /\ IsPrefix(OpsOf(ExecCalls(h)), PwdOps)
           /\ h < cmd.handle => OpsOf(ExecCalls(h)) = PwdOps
    /\ cmd.pc \in {"idle", "create"} => cmd.handle = 0
    /\ cmd.handle > 0 =>
           LET on == ExecCalls(cmd.handle)
           IN  /\ on[1].arg = cmd.command
               /\ cmd.pc = "start" => OpsOf(on) = <<"exec_create">>
               /\ cmd.pc = "stream" => OpsOf(on) = <<"exec_create", "exec_start">>
               /\ Len(on) = 3 =>
                      /\ cmd.gen = <<>>
                      /\ Decodable(cmd.chunks)
                      /\ on[3].data = <<cmd.code>>
               /\ cmd.pc = "returned" => Len(on) = 3 /\ cmd.code = 0
               /\ (cmd.pc = "raised" /\ Decodable(cmd.chunks)) =>
                      Len(on) = 3 /\ cmd.code # 0
               /\ (cmd.pc = "raised" /\ ~Decodable(cmd.chunks)) =>
                      /\ Len(on) = 2
                      /\ cmd.gen # <<>>
                      /\ ~decode(Head(cmd.gen)).ok
               /\ ~cmd.silent =>
                      /\ \E p \in 1..Len(log) : log[p] = Header(cmd.command)
                      /\ SinceHeader = Taken(cmd)
    /\ (pc = "finally" /\ exc.type = "SystemExit" /\ ~cmd.silent) =>
           /\ Len(SinceHeader) = Len(cmd.chunks)
           /\ Last(calls).op = "exec_inspect"

\* a command that wrote two chunks and exited with 3: both chunks are in
\* the log when SystemExit is in flight
C13_Witness ==
    /\ pc = "finally"
    /\ exc = SystemExit(3)
    /\ cmd.pc = "raised"
    /\ ~cmd.silent
    /\ Len(cmd.chunks) = 2
    /\ Len(SinceHeader) = 2
    /\ OpsOf(ExecCalls(cmd.handle)) = PwdOps

\* the claim as stated: every invocation that ended has drained its stream
\* and made its exit-status query
C13_AsStated ==
    (cmd.handle > 0 /\ cmd.pc \in {"returned", "raised"}) =>
        /\ OpsOf(ExecCalls(cmd.handle)) = PwdOps
        /\ cmd.gen = <<>>

(***************************************************************************)
(* C14  Push uploads a completed archive: the one put_archive of a push    *)
(* is made after every listed path has been added in listed order and      *)
(* after the archive has been closed, its destination is the working       *)
(* directory the pwd query returned, and the names of the archive entries  *)
(* are the listed paths as given.                                          *)
(***************************************************************************)
Adds(q) ==
    LET T(c) == c.op = "add"
    IN  SelectSeq(q, T)

C14_AsStated ==
    xfer.fn = "push" =>
        /\ Len(Uploads(calls)) <= 1
        /\ \A m \in 1..Len(calls) :
               calls[m].op = "put_archive" =>
                   /\ [j \in 1..Len(Adds(calls)) |-> Adds(calls)[j].arg] = xfer.files
                   /\ \A n \in 1..Len(calls) : calls[n].op = "add" => n < m
                   /\ calls[m].arg = xfer.cwd
                   /\ calls[m].data.closed
                   /\ calls[m].data.entries = xfer.files

(***************************************************************************)
(* C15  Silent mode affects logging only: an invocation with silent=True   *)
(* logs nothing, neither header nor chunk, and what an invocation does     *)
(* otherwise is a function of the command, the chunks and the exit code    *)
(* alone: the calls it makes on the client, whether it returns or raises,  *)
(* the value it returns and the exception it raises are the same with      *)
(* silent=True as with silent=False.                                       *)
(***************************************************************************)
\* what run_command(command) does in a container that streams the chunks
\* and reports the exit code, whatever silent is
Outcome_of(command, chunks, code) ==
    [calls |-> <<[op |-> "exec_create", arg |-> command, data |-> <<>>],
                 [op |-> "exec_start", arg |-> command, data |-> chunks]>>
               \o (IF Decodable(chunks)
                   THEN <<[op |-> "exec_inspect", arg |-> command, data |-> <<code>>]>>
                   ELSE <<>>),
     returns |-> Decodable(chunks) /\ code = 0,
     result |-> IF Decodable(chunks) /\ code = 0 THEN strip(TextOf(chunks))
                ELSE <<>>,
     raises |-> IF ~Decodable(chunks) THEN Error("UnicodeDecodeError")
                ELSE IF code # 0 THEN SystemExit(code)
                ELSE NoException]

MainLines == {BOLD(<<"Building image...\n">>), BOLD(<<"Starting container...\n">>),
              Stopping}

C15_SilentOnlyLogging ==
    cmd.handle > 0 =>
        LET on == ExecCalls(cmd.handle)
            same == Outcome_of(cmd.command, cmd.chunks, cmd.code)
        IN  /\ cmd.silent => \A p \in 1..Len(log) : log[p] \in MainLines
            /\ ~cmd.silent => \E p \in 1..Len(log) : log[p] = Header(cmd.command)
            /\ cmd.pc \in {"returned", "raised"} =>
                   /\ [j \in 1..Len(on) |->
                          [op |-> on[j].op, arg |-> on[j].arg, data |-> on[j].data]]
                        = same.calls
                   /\ \A j \in 1..Len(on) : on[j].handle = cmd.handle /\ on[j].ok
                   /\ (cmd.pc = "returned") = same.returns
                   /\ cmd.result = same.result
                   /\ pc \in {"loop", "finally"} => exc = same.raises

\* a silent invocation whose command wrote two chunks and exited with 3:
\* SystemExit(3) is in flight and nothing of it is in the log
C15_Witness ==
    /\ cmd.silent
    /\ cmd.pc = "raised"
    /\ Len(cmd.chunks) = 2
    /\ pc = "finally"
    /\ exc = SystemExit(3)
    /\ log = <<BOLD(<<"Building image...\n">>), BOLD(<<"Starting container...\n">>)>>

(***************************************************************************)
(* C16  Transfer failure in the middle of a pull: when the get_archive,    *)
(* the opening of the archive or the extractall of the k-th listed path    *)
(* raises, that exception reaches main's finally as it was raised, with    *)
(* every run_env frame left; no call but the stop of the container is made *)
(* afterwards, so no later path is fetched and the k-th is not fetched     *)
(* again; and what was extracted for the paths before the k-th is still in *)
(* the current directory when the process ends.                            *)
(***************************************************************************)
PullFailure(c) ==
    /\ c.phase = "pull"
    /\ c.op \in {"get_archive", "tarfile.open", "extractall"}
    /\ ~c.ok

\* the exception the failing call raises
RaisedBy(c) ==
    CASE c.op = "get_archive" -> Error("APIError")
      [] c.op = "tarfile.open" -> Error("ReadError")
      [] c.op = "extractall" -> Error("OSError")

C16_PullFailure ==
    \A m \in 1..Len(calls) :
        PullFailure(calls[m]) =>
            LET f == calls[m]
                env == config.heap[f.node]
                pulled == TransferCalls(f.i, f.node, "pull")
                fetched == Fetches(pulled)
                k == Len(fetched)
            IN  /\ \A n \in (m + 1)..Len(calls) : IsStop(calls[n])
                /\ Last(pulled) = f
                /\ IsPrefix(OpsOf(pulled), PullOps(k))
                /\ k \in 1..Len(env.pull)
                /\ \A j \in 1..k : IsSuffix(env.pull[j], fetched[j].arg)
                /\ \A j \in 1..(k - 1) :
                       [path |-> fetched[j].arg, whole |-> TRUE] \in local
                /\ stack = <<>>
                /\ xfer.pc = "raised"
                /\ pc \in {"finally", "done"}
                /\ pc = "finally" => exc = RaisedBy(f)
                /\ (pc = "done" /\ Last(calls).ok) =>
                       exc = RaisedBy(f) /\ status = exit_status(RaisedBy(f))

\* the extractall of the second of MaxPaths paths of a nested env dict
\* raised; the process has ended and the first path is in the current
\* directory
C16_Witness ==
    /\ pc = "done"
    /\ \E m \in 1..Len(calls) :
          /\ PullFailure(calls[m])
          /\ calls[m].op = "extractall"
          /\ Len(calls[m].node) = 2
          /\ Len(Fetches(TransferCalls(calls[m].i, calls[m].node, "pull"))) = MaxPaths
          /\ Len(config.heap[calls[m].node].pull) = MaxPaths
    /\ \E e \in local : e.whole

(***************************************************************************)
(* C17  Failure of the working-directory query: when the silent 'pwd' of   *)
(* a push or of a pull exits with a nonzero code, the calls of that push   *)
(* or pull are the three of the query and no more (no archive is opened,   *)
(* uploaded or fetched), SystemExit with that code reaches main's finally  *)
(* as the SystemExit of a listed command does, and the only call made      *)
(* afterwards is the stop of the container: no run command of that env     *)
(* dict, or of any other, executes.                                        *)
(***************************************************************************)
PwdFailure(c) ==
    /\ NonzeroExit(c)
    /\ c.arg = PWD
    /\ c.phase \in {"push", "pull"}

C17_PwdFailure ==
    \A m \in 1..Len(calls) :
        PwdFailure(calls[m]) =>
            LET f == calls[m]
                code == f.data[1]
            IN  /\ OpsOf(TransferCalls(f.i, f.node, f.phase)) = PwdOps
                /\ \A n \in (m + 1)..Len(calls) : IsStop(calls[n])
                /\ cmd.silent
                /\ cmd.pc = "raised"
                /\ xfer.pc = "raised"
                /\ stack = <<>>
                /\ pc \in {"finally", "done"}
                /\ pc = "finally" => exc = SystemExit(code)
                /\ (pc = "done" /\ Last(calls).ok) =>
                       exc = SystemExit(code) /\ status = code
                /\ \A p \in 1..Len(log) : log[p] # Header(PWD)

\* the pwd of the push of a nested env dict failed before any command of
\* its run list; the process has ended with the code of the pwd
C17_Witness ==
    /\ pc = "done"
    /\ status = 1
    /\ \E m \in 1..Len(calls) :
          /\ PwdFailure(calls[m])
          /\ calls[m].phase = "push"
          /\ Len(calls[m].node) = 2
          /\ Len(run_list(config.heap[calls[m].node])) = MaxRun
          /\ Entered(1, calls[m].node, "run", Cmd(calls[m].node, 1)) = 0

(***************************************************************************)
(* C18  One remote call at a time: in every state at most one exchange     *)
(* with the container is in progress, an exec that has been created and    *)
(* whose exit status has not been read, or an archive that has been        *)
(* fetched and not yet extracted.  An exec_create, get_archive or          *)
(* put_archive is issued only when every exec created before has had its   *)
(* stream started and its exit status read and every archive fetched       *)
(* before has been read, opened and extracted; while a stream is being     *)
(* taken, or a fetched archive read and extracted, no other call is made.  *)
(***************************************************************************)
IsOp(c, op) == c.op = op /\ c.ok
CountOp(q, op) ==
    LET T(c) == IsOp(c, op)
    IN  Count(q, T)

\* the execs created and not yet inspected, the archives fetched and not
\* yet extracted, among the calls q
InProgress(q) ==
    (CountOp(q, "exec_create") - CountOp(q, "exec_inspect"))
    + (CountOp(q, "get_archive") - CountOp(q, "extractall"))

C18_OneCallAtATime ==
    /\ InProgress(calls) \in {0, 1}
    /\ \A m \in 1..Len(calls) :
           LET before == SubSeq(calls, 1, m - 1)
           IN  /\ calls[m].op \in {"exec_create", "get_archive", "put_archive"} =>
                      /\ InProgress(before) = 0
                      /\ CountOp(before, "exec_start") = CountOp(before, "exec_create")
                      /\ CountOp(before, "read") = CountOp(before, "get_archive")
               /\ calls[m].op \in {"exec_start", "exec_inspect"} =>
                      /\ calls[m - 1].handle = calls[m].handle
                      /\ calls[m - 1].op = IF calls[m].op = "exec_start"
                                           THEN "exec_create" ELSE "exec_start"
               /\ calls[m].op = "read" => IsOp(calls[m - 1], "get_archive")
               /\ calls[m].op = "extractall" =>
                      /\ calls[m - 1].op = "tarfile.open"
                      /\ calls[m - 2].op = "read"
    /\ (CmdActive /\ cmd.handle > 0) => Last(calls).handle = cmd.handle
    /\ CmdActive => xfer.pc \notin {"add", "extractall"}

\* a command is created right after a pull has extracted its last archive,
\* itself fetched right after the exit status of the pwd was read
C18_Witness ==
    /\ Len(calls) >= 8
    /\ Last(calls).op = "exec_create"
    /\ calls[Len(calls) - 1].op = "extractall"
    /\ calls[Len(calls) - 4].op = "get_archive"
    /\ calls[Len(calls) - 5].op = "exec_inspect"
    /\ InProgress(calls) = 1

(***************************************************************************)
(* C19  Unguarded recursion: run_env checks neither for cycles nor for     *)
(* depth.  For an env dict that is its own 'before', directly or through   *)
(* its 'before', run_env calls itself to whatever depth the interpreter    *)
(* allows: no push, run, pull or after phase of any env dict is reached    *)
(* (no call is made for one and nothing is logged for a command), run_env  *)
(* never returns to main, and the process never ends with status 0.  For   *)
(* a configuration without such a cycle the run always ends.               *)
(***************************************************************************)
\* following 'before' from env dict id for n steps never comes to an end
RECURSIVE BeforeChain(_, _)
BeforeChain(id, n) ==
    \/ n = 0
    \/ /\ id \in DOMAIN config.heap
       /\ "before" \in DOMAIN config.heap[id]
       /\ BeforeChain(config.heap[id].before, n - 1)

EndlessBefore ==
    /\ config.envlist # <<>>
    /\ BeforeChain(<<config.envlist[1]>>, Cardinality(DOMAIN config.heap) + 1)

\* the env dicts that 'before' or 'after' lead to from those of S
Refers(id) ==
    IF id \in DOMAIN config.heap
    THEN {config.heap[id][key] : key \in {"before", "after"} \cap DOMAIN config.heap[id]}
    ELSE {}

RECURSIVE Referred(_, _)
Referred(S, n) ==
    IF n = 0 THEN S
    ELSE Referred(S \cup UNION {Refers(id) : id \in S}, n - 1)

Acyclic ==
    \A id \in DOMAIN config.heap :
        id \notin Referred(Refers(id), Cardinality(DOMAIN config.heap))

NeverPastBefore ==
    EndlessBefore =>
        /\ RunCalls = <<>>
        /\ \A p \in 1..Len(log) : log[p] \in MainLines
        /\ i = 1
        /\ xfer = NoXfer
        /\ cmd = NoCmd
        /\ \A d \in 1..Len(stack) :
               stack[d].pc = IF d < Len(stack) THEN "push" ELSE "before"
        /\ pc = "finally" => exc = Error("RecursionError")
        /\ pc = "done" => status = 1

C19_UnguardedRecursion ==
    /\ [](NeverPastBefore)
    /\ [](Acyclic => exc.type # "RecursionError")
    /\ (EndlessBefore /\ pc = "loop") ~> (Len(stack) = MaxDepth)
    /\ Acyclic ~> (pc = "done")

\* every run_env call the interpreter allows is on the stack, each made by
\* the one before as the 'before' of the same env dict
C19_Witness ==
    /\ Len(stack) = MaxDepth
    /\ \A d \in 1..Len(stack) : stack[d].env = <<"e1">>
    /\ "run" \in DOMAIN config.heap[<<"e1">>]
    /\ RunCalls = <<>>

====
